---- MODULE Spec2Model ----
(***************************************************************************)
(* Model of the Kafka broker layer of provisioning-backend                 *)
(* (internal/kafka: createSASLMechanism, NewKafkaBroker,                   *)
(* InitializeKafkaBroker, NewReader, NewWriter, Consume, Send).            *)
(*                                                                         *)
(* Conventions                                                             *)
(*   - a Go pointer or interface value is a sequence: <<>> is nil and      *)
(*     <<v>> is a non-nil value v;                                         *)
(*   - a Go string that the code inspects character by character (the     *)
(*     SASL mechanism name) is a tuple of one-character strings;           *)
(*   - a file path is the tuple of its segments below the root, <<>> is    *)
(*     the empty string;                                                   *)
(*   - a Go error is a record: chain is the Unwrap chain, outermost        *)
(*     first, args are the values formatted into the message with %s.      *)
(*     The nil error has an empty chain.                                   *)
(***************************************************************************)
EXTENDS Integers, Sequences, FiniteSets, TLC

VARIABLES
    config,           \* config.Kafka: CACert, SASL.SaslMechanism, SASL.Username, SASL.Password
    broker,           \* the package-level broker variable (<<>> is nil)
    initCalled,       \* InitializeKafkaBroker has run
    initErr,          \* the error InitializeKafkaBroker returned
    newErr,           \* the error NewKafkaBroker returned to InitializeKafkaBroker
    cpc,              \* per Consume call: "idle", "reading", "handling", "returned"
    reader,           \* per Consume call: the reader r (<<>> before NewReader)
    ctxCancelled,     \* per Consume call: the context passed to Consume is cancelled
    reads,            \* per Consume call: the results of the ReadMessage calls that returned
    readsIssued,      \* per Consume call: number of ReadMessage calls issued
    handled,          \* per Consume call: the messages passed to the handler, in call order
    handlerInFlight,  \* per Consume call: handler invocations that have not returned
    warnings,         \* per Consume call: the errors logged with logger.Warn()
    spc,              \* per Send call: "idle", "writing", "returned"
    batch,            \* per Send call: the messages argument
    writer,           \* per Send call: the writer w (<<>> when none was created)
    writeCalls,       \* per Send call: the kMessages of each WriteMessages call
    sendErr,          \* per Send call: the error Send returned
    writeErrs,        \* per Send call: the error each WriteMessages call returned
    heap,             \* the readers and writers created so far, by address (index)
    ref,              \* per Consume or Send call: the address held in r or w (0: none)
    appTypeIdCache,   \* cache of the provisioning application type id (<<>>: empty)
    typeIdCalls,      \* per GetProvisioningTypeId call: its progress and result
    authentications,  \* the argument of filterSourceAuthentications
    filtered,         \* the outcome of filterSourceAuthentications (<<>>: not called)
    reservations,     \* the reservations in the database
    jobQueue,         \* the jobs enqueued
    requests          \* per handled CreateNoopReservation request: its calls, in order

buildVars   == <<config, broker, initCalled, initErr, newErr>>
consumeVars == <<cpc, reader, ctxCancelled, reads, readsIssued, handled, handlerInFlight, warnings>>
sendVars    == <<spc, batch, writer, writeCalls, sendErr, writeErrs>>
heapVars    == <<heap, ref>>
sourcesVars == <<appTypeIdCache, typeIdCalls, authentications, filtered>>
noopVars    == <<reservations, jobQueue, requests>>
appVars     == <<sourcesVars, noopVars>>
vars        == <<config, broker, initCalled, initErr, newErr,
                 cpc, reader, ctxCancelled, reads, readsIssued, handled, handlerInFlight, warnings,
                 spc, batch, writer, writeCalls, sendErr, writeErrs, heap, ref,
                 appTypeIdCache, typeIdCalls, authentications, filtered,
                 reservations, jobQueue, requests>>

----------------------------------------------------------------------------
(* Errors *)

NilErr == [chain |-> <<>>, args |-> <<>>]

\* errors.New(text): a sentinel, identified by its name
ErrorsNew(name) == [chain |-> <<name>>, args |-> <<>>]

\* fmt.Errorf("<prefix>: %w", err)
Errorf(prefix, err) == [chain |-> <<prefix>> \o err.chain, args |-> err.args]

\* fmt.Errorf("%w: %s", err, arg)
ErrorfArg(err, arg) == [chain |-> <<"%w: %s">> \o err.chain, args |-> err.args \o <<arg>>]

\* errors.Is(err, target) for a sentinel target: walks the Unwrap chain
ErrorsIsDirect(err, target) == err.chain = target.chain

ErrorsIs(err, target) ==
    \E i \in 1..Len(err.chain) : err.chain[i] = target.chain[1]

DifferentTopicErr       == ErrorsNew("messages in batch have different topics")
UnknownSaslMechanismErr == ErrorsNew("unknown SASL mechanism")
io_EOF                  == ErrorsNew("EOF")

----------------------------------------------------------------------------
(* strings.ToLower on the letters the mechanism names use *)

UpperLetters == <<"A","B","C","D","E","F","G","H","I","J","K","L","M",
                  "N","O","P","Q","R","S","T","U","V","W","X","Y","Z">>
LowerLetters == <<"a","b","c","d","e","f","g","h","i","j","k","l","m",
                  "n","o","p","q","r","s","t","u","v","w","x","y","z">>

ToLowerChar(ch) ==
    IF \E i \in 1..26 : UpperLetters[i] = ch
    THEN LowerLetters[CHOOSE i \in 1..26 : UpperLetters[i] = ch]
    ELSE ch

ToLower(s) == [i \in 1..Len(s) |-> ToLowerChar(s[i])]

Str_plain    == <<"p","l","a","i","n">>
Str_scram256 == <<"s","c","r","a","m","-","s","h","a","-","2","5","6">>
Str_scram512 == <<"s","c","r","a","m","-","s","h","a","-","5","1","2">>

----------------------------------------------------------------------------
(* Configuration and the files it names *)

Str_PLAIN     == <<"P","L","A","I","N">>
Str_Plain     == <<"P","l","a","i","n">>
Str_SCRAM256  == <<"S","C","R","A","M","-","S","H","A","-","2","5","6">>
Str_Scram512  == <<"S","c","r","a","m","-","S","h","a","-","5","1","2">>
Str_scram1    == <<"s","c","r","a","m","-","s","h","a","-","1">>
Str_gssapi    == <<"g","s","s","a","p","i">>
Str_plainSp   == <<"p","l","a","i","n"," ">>
Str_PLAINS    == <<"P","L","A","I","N","S">>

\* values of config.Kafka.SASL.SaslMechanism; <<>> is the empty string
MechanismNames ==
    { <<>>, Str_plain, Str_PLAIN, Str_Plain, Str_scram256, Str_SCRAM256,
      Str_scram512, Str_Scram512, Str_scram1, Str_gssapi, Str_plainSp, Str_PLAINS }

\* values of config.Kafka.CACert
CAPaths ==
    { <<>>,
      <<"etc", "kafka", "ca.pem">>,
      <<"etc", "kafka", ".", "ca.pem">>,
      <<"etc", "tmp", "..", "kafka", "bundle.pem">>,
      <<"etc", "kafka", "notes.txt">>,
      <<"etc", "kafka", "empty.pem">>,
      <<"etc", "kafka", "badder.pem">>,
      <<"etc", "kafka", "missing.pem">> }

\* credentials; SASLprep rejects the one holding a control character
Credentials == { "user", "bad\\u0007" }

Configs ==
    [ CACert : CAPaths, SaslMechanism : MechanismNames,
      Username : Credentials, Password : Credentials ]

\* The file system: clean path -> content. A content is the sequence of the
\* PEM blocks that pem.Decode finds; text that is not a PEM block yields none.
\* A block has a Type and DER bytes; cert is the certificate the bytes
\* parse to, <<>> when x509.ParseCertificate fails on them.
CertBlock(id)  == [Type |-> "CERTIFICATE", cert |-> <<id>>]
BadDerBlock    == [Type |-> "CERTIFICATE", cert |-> <<>>]
KeyBlock       == [Type |-> "PRIVATE KEY", cert |-> <<>>]

FileSystem ==
    ( <<"etc", "kafka", "ca.pem">>     :> <<CertBlock("rootCA")>> ) @@
    ( <<"etc", "kafka", "bundle.pem">> :> <<KeyBlock, CertBlock("rootCA"), BadDerBlock, CertBlock("interCA")>> ) @@
    ( <<"etc", "kafka", "notes.txt">>  :> <<>> ) @@
    ( <<"etc", "kafka", "empty.pem">>  :> <<>> ) @@
    ( <<"etc", "kafka", "badder.pem">> :> <<BadDerBlock, KeyBlock>> )

\* filepath.Clean on a rooted path: drops "." and resolves ".."
RECURSIVE CleanFrom(_, _)
CleanFrom(path, acc) ==
    IF path = <<>> THEN acc
    ELSE IF Head(path) = "." THEN CleanFrom(Tail(path), acc)
    ELSE IF Head(path) = ".."
         THEN CleanFrom(Tail(path), IF acc = <<>> THEN acc ELSE SubSeq(acc, 1, Len(acc) - 1))
    ELSE CleanFrom(Tail(path), Append(acc, Head(path)))

Clean(path) == CleanFrom(path, <<>>)

\* ioutil.ReadFile
ReadFile(path) ==
    IF path \in DOMAIN FileSystem
    THEN [data |-> FileSystem[path], err |-> NilErr]
    ELSE [data |-> <<>>, err |-> ErrorsNew("open: no such file or directory")]

\* x509.CertPool.AppendCertsFromPEM: adds every CERTIFICATE block that parses,
\* skips the others; ok tells whether any certificate was added
AppendCertsFromPEM(pemCerts) ==
    LET added == { pemCerts[i].cert[1] : i \in { j \in 1..Len(pemCerts) :
                        pemCerts[j].Type = "CERTIFICATE" /\ pemCerts[j].cert # <<>> } }
    IN  [pool |-> added, ok |-> added # {}]

\* scram.Mechanism(algo, username, password): fails when SASLprep rejects a credential
ScramMechanism(algo, username, password) ==
    IF username = "bad\\u0007" \/ password = "bad\\u0007"
    THEN [mechanism |-> <<>>, err |-> ErrorsNew("prohibited character")]
    ELSE [mechanism |-> <<[Name |-> algo, Username |-> username, Password |-> password]>>,
          err |-> NilErr]

----------------------------------------------------------------------------
(* createSASLMechanism *)

createSASLMechanismUnwrapped(saslMechanismName, username, password) ==
    LET lower == ToLower(saslMechanismName) IN
    IF lower = Str_plain
    THEN [mechanism |-> <<[Name |-> "PLAIN", Username |-> username, Password |-> password]>>,
          err |-> NilErr]
    ELSE IF lower = Str_scram512
    THEN LET m == ScramMechanism("SCRAM-SHA-512", username, password) IN
         IF m.err # NilErr
         THEN [mechanism |-> <<>>, err |-> Errorf("unable to create scram-sha-512 mechanism", m.err)]
         ELSE [mechanism |-> m.mechanism, err |-> NilErr]
    ELSE IF lower = Str_scram256
    THEN LET m == ScramMechanism("SCRAM-SHA-256", username, password) IN
         IF m.err # NilErr
         THEN [mechanism |-> <<>>, err |-> Errorf("unable to create scram-sha-256 mechanism", m.err)]
         ELSE [mechanism |-> m.mechanism, err |-> NilErr]
    ELSE [mechanism |-> <<>>,
          err |-> [chain |-> <<"%v: %s">>, args |-> <<saslMechanismName>>]]

createSASLMechanism(saslMechanismName, username, password) ==
    LET lower == ToLower(saslMechanismName) IN
    IF lower = Str_plain
    THEN [mechanism |-> <<[Name |-> "PLAIN", Username |-> username, Password |-> password]>>,
          err |-> NilErr]
    ELSE IF lower = Str_scram512
    THEN LET m == ScramMechanism("SCRAM-SHA-512", username, password) IN
         IF m.err # NilErr
         THEN [mechanism |-> <<>>, err |-> Errorf("unable to create scram-sha-512 mechanism", m.err)]
         ELSE [mechanism |-> m.mechanism, err |-> NilErr]
    ELSE IF lower = Str_scram256
    THEN LET m == ScramMechanism("SCRAM-SHA-256", username, password) IN
         IF m.err # NilErr
         THEN [mechanism |-> <<>>, err |-> Errorf("unable to create scram-sha-256 mechanism", m.err)]
         ELSE [mechanism |-> m.mechanism, err |-> NilErr]
    ELSE [mechanism |-> <<>>, err |-> ErrorfArg(UnknownSaslMechanismErr, saslMechanismName)]

----------------------------------------------------------------------------
(* NewKafkaBroker, InitializeKafkaBroker *)

KafkaClientID      == "provisioning-backend"
DialTimeoutSeconds == 10

\* lines 76-91: the TLS configuration, <<>> when no CA certificate is configured
BuildTLS(cfg) ==
    IF cfg.CACert # <<>>
    THEN LET cleanCAPath == Clean(cfg.CACert)
             f           == ReadFile(cleanCAPath)
         IN  IF f.err # NilErr
             THEN [tlsConfig |-> <<>>, err |-> Errorf("unable to read kafka CA cert", f.err)]
             ELSE [tlsConfig |-> <<[MinVersion |-> "VersionTLS13",
                                    RootCAs    |-> AppendCertsFromPEM(f.data).pool]>>,
                   err |-> NilErr]
    ELSE [tlsConfig |-> <<>>, err |-> NilErr]

\* lines 93-100: the SASL mechanism, <<>> when no mechanism name is configured
BuildSASL(cfg) ==
    IF cfg.SaslMechanism # <<>>
    THEN LET m == createSASLMechanism(cfg.SaslMechanism, cfg.Username, cfg.Password) IN
         IF m.err # NilErr
         THEN [saslMechanism |-> <<>>, err |-> Errorf("kafka SASL error", m.err)]
         ELSE [saslMechanism |-> m.mechanism, err |-> NilErr]
    ELSE [saslMechanism |-> <<>>, err |-> NilErr]

NewKafkaBrokerTransportWithoutSASL(cfg) ==
    LET t == BuildTLS(cfg) IN
    IF t.err # NilErr THEN [broker |-> <<>>, err |-> t.err]
    ELSE
    LET s == BuildSASL(cfg) IN
    IF s.err # NilErr THEN [broker |-> <<>>, err |-> s.err]
    ELSE
    LET dialer    == [ClientID |-> KafkaClientID, Timeout |-> DialTimeoutSeconds,
                      SASLMechanism |-> s.saslMechanism, TLS |-> t.tlsConfig]
        transport == [ClientID |-> KafkaClientID, TLS |-> t.tlsConfig,
                      SASL |-> <<>>]
    IN  [broker |-> <<[dialer |-> dialer, transport |-> transport]>>, err |-> NilErr]

NewKafkaBroker(cfg) ==
    LET t == BuildTLS(cfg) IN
    IF t.err # NilErr THEN [broker |-> <<>>, err |-> t.err]
    ELSE
    LET s == BuildSASL(cfg) IN
    IF s.err # NilErr THEN [broker |-> <<>>, err |-> s.err]
    ELSE
    LET dialer    == [ClientID |-> KafkaClientID, Timeout |-> DialTimeoutSeconds,
                      SASLMechanism |-> s.saslMechanism, TLS |-> t.tlsConfig]
        transport == [ClientID |-> KafkaClientID, TLS |-> t.tlsConfig,
                      SASL |-> s.saslMechanism]
    IN  [broker |-> <<[dialer |-> dialer, transport |-> transport]>>, err |-> NilErr]

InitializeKafkaBroker ==
    /\ ~initCalled
    /\ LET r == NewKafkaBroker(config) IN
       /\ broker' = r.broker
       /\ newErr' = r.err
       /\ initErr' = IF r.err # NilErr
                     THEN Errorf("unable to initialize kafka", r.err)
                     ELSE NilErr
    /\ initCalled' = TRUE
    /\ UNCHANGED <<config, consumeVars, sendVars, heapVars, appVars>>

----------------------------------------------------------------------------
(* Messages *)

Topics == { "orders", "events" }

\* GenericMessage: Topic, Key, Value, Headers (byte sequences are tuples of
\* numbers): an empty message, a binary one with a key and a header, a text one
Payloads ==
    { [Key |-> <<>>,    Value |-> <<>>,         Headers |-> <<>>],
      [Key |-> <<107>>, Value |-> <<0, 255>>,   Headers |-> << [Key |-> "trace", Value |-> <<1>>] >>],
      [Key |-> <<>>,    Value |-> <<104, 105>>, Headers |-> <<>>] }

GenericMessages ==
    { [Topic |-> t, Key |-> p.Key, Value |-> p.Value, Headers |-> p.Headers] :
        t \in Topics, p \in Payloads }

\* GenericMessage.KafkaMessage(): the wire message; the fields it does not
\* set keep their zero values
KafkaMessage(m) ==
    [ Topic |-> m.Topic, Partition |-> 0, Offset |-> 0,
      Key |-> m.Key, Value |-> m.Value, Headers |-> m.Headers ]

\* NewMessageFromKafka(&msg): the application message of a wire message
NewMessageFromKafka(km) ==
    [ Topic |-> km.Topic, Key |-> km.Key, Value |-> km.Value, Headers |-> km.Headers ]

\* the zero kafka.Message that ReadMessage returns together with an error
ZeroKafkaMessage ==
    [ Topic |-> "", Partition |-> 0, Offset |-> 0, Key |-> <<>>, Value |-> <<>>, Headers |-> <<>> ]

----------------------------------------------------------------------------
(* Consume *)

Consumers == { "c1", "c2" }

MaxReads == 3

\* what a reader of the topic can fetch: wire messages of that topic
FetchedMessages(topic) ==
    { [ Topic |-> topic, Partition |-> 1, Offset |-> 41, Key |-> <<>>, Value |-> <<>>, Headers |-> <<>> ],
      [ Topic |-> topic, Partition |-> 1, Offset |-> 42, Key |-> <<107>>, Value |-> <<0, 255>>,
        Headers |-> << [Key |-> "trace", Value |-> <<1>>] >> ],
      [ Topic |-> topic, Partition |-> 0, Offset |-> 7, Key |-> <<>>, Value |-> <<104, 105>>, Headers |-> <<>> ] }

ContextCanceled   == ErrorsNew("context canceled")
RequestTimedOut   == ErrorsNew("[7] Request Timed Out")
ErrUnexpectedEOF  == ErrorsNew("unexpected EOF")
WrappedEOF        == Errorf("failed to read batch", io_EOF)

\* The results r.ReadMessage(ctx) can return. The cancellation error is
\* returned only once ctx is cancelled; a message already fetched or another
\* error may still win the race against ctx.Done().
ReadResults(topic, cancelled) ==
    { [msg |-> km, err |-> NilErr] : km \in FetchedMessages(topic) }
    \cup { [msg |-> ZeroKafkaMessage, err |-> e] :
             e \in { io_EOF, WrappedEOF, RequestTimedOut, ErrUnexpectedEOF } }
    \cup IF cancelled THEN { [msg |-> ZeroKafkaMessage, err |-> ContextCanceled] } ELSE {}

\* The readers and writers live on the heap: an object records who created
\* it, who called its methods and how often Close was called on it.
NewObject(kind, p) == [kind |-> kind, creator |-> p, users |-> {}, closeCalls |-> 0]

Alloc(h, r, kind, p) == IF r > Len(h) THEN Append(h, NewObject(kind, p)) ELSE h

\* p calls a method of the object at r
Use(h, r, p) == [h EXCEPT ![r].users = @ \cup {p}]

\* p calls Close on the object at r
Close(h, r, p) == [h EXCEPT ![r].users = @ \cup {p}, ![r].closeCalls = @ + 1]

\* the address of the reader kafka.NewReader returns: a new object (line 138)
ReaderRef(h) == Len(h) + 1

\* the broker handle after b.NewReader ran: no field of b is assigned (lines 137-146)
BrokerAfterNewReader(b) == b

\* NewReader (lines 137-146)
NewReader(b, topic) ==
    [ Dialer |-> b.dialer, Topic |-> topic, StartOffset |-> "LastOffset", closeCalls |-> 0 ]

\* The body of the for loop (lines 167-175) on one ReadMessage result:
\*   exit    the loop breaks, the deferred r.Close() runs and Consume returns
\*   warn    the error is logged as a warning
\*   handle  the handler is called with the translated message
\*   wait    the loop waits for the handler to return before the next read
LoopBodyAsync(err) ==
    IF err # NilErr /\ ErrorsIs(err, io_EOF)
    THEN [exit |-> TRUE, warn |-> FALSE, handle |-> FALSE, wait |-> FALSE]
    ELSE IF err # NilErr
    THEN [exit |-> FALSE, warn |-> TRUE, handle |-> FALSE, wait |-> FALSE]
    ELSE [exit |-> FALSE, warn |-> FALSE, handle |-> TRUE, wait |-> FALSE]

LoopBodyBreakOnError(err) ==
    IF err # NilErr
    THEN [exit |-> TRUE, warn |-> ~ErrorsIs(err, io_EOF), handle |-> FALSE, wait |-> FALSE]
    ELSE [exit |-> FALSE, warn |-> FALSE, handle |-> TRUE, wait |-> TRUE]

LoopBodyDirectEOF(err) ==
    IF err # NilErr /\ ErrorsIsDirect(err, io_EOF)
    THEN [exit |-> TRUE, warn |-> FALSE, handle |-> FALSE, wait |-> FALSE]
    ELSE IF err # NilErr
    THEN [exit |-> FALSE, warn |-> TRUE, handle |-> FALSE, wait |-> FALSE]
    ELSE [exit |-> FALSE, warn |-> FALSE, handle |-> TRUE, wait |-> TRUE]

LoopBodyExitOnCancel(err) ==
    IF err # NilErr /\ (ErrorsIs(err, io_EOF) \/ ErrorsIs(err, ContextCanceled))
    THEN [exit |-> TRUE, warn |-> FALSE, handle |-> FALSE, wait |-> FALSE]
    ELSE IF err # NilErr
    THEN [exit |-> FALSE, warn |-> TRUE, handle |-> FALSE, wait |-> FALSE]
    ELSE [exit |-> FALSE, warn |-> FALSE, handle |-> TRUE, wait |-> TRUE]

LoopBody(err) ==
    IF err # NilErr /\ ErrorsIs(err, io_EOF)
    THEN [exit |-> TRUE, warn |-> FALSE, handle |-> FALSE, wait |-> FALSE]
    ELSE IF err # NilErr
    THEN [exit |-> FALSE, warn |-> TRUE, handle |-> FALSE, wait |-> FALSE]
    ELSE [exit |-> FALSE, warn |-> FALSE, handle |-> TRUE, wait |-> TRUE]

\* Consume is called: the reader is created, its Close is deferred and the
\* first ReadMessage is issued (lines 161-167)
Consume(c, topic) ==
    /\ cpc[c] = "idle"
    /\ broker # <<>>
    /\ reader' = [reader EXCEPT ![c] = <<NewReader(broker[1], topic)>>]
    /\ broker' = <<BrokerAfterNewReader(broker[1])>>
    /\ ref' = [ref EXCEPT ![c] = ReaderRef(heap)]
    /\ heap' = Alloc(heap, ReaderRef(heap), "reader", c)
    /\ readsIssued' = [readsIssued EXCEPT ![c] = 1]
    /\ cpc' = [cpc EXCEPT ![c] = "reading"]
    /\ UNCHANGED <<config, initCalled, initErr, newErr, ctxCancelled, reads, handled,
                   handlerInFlight, warnings, sendVars, appVars>>

\* the ReadMessage in flight returns and the loop body runs on its result
ReadMessageReturns(c) ==
    /\ cpc[c] = "reading"
    /\ Len(reads[c]) < MaxReads
    /\ \E res \in ReadResults(reader[c][1].Topic, ctxCancelled[c]) :
       LET step == LoopBody(res.err) IN
       /\ reads' = [reads EXCEPT ![c] = Append(@, res)]
       /\ warnings' = [warnings EXCEPT ![c] = IF step.warn THEN Append(@, res.err) ELSE @]
       /\ handled' = [handled EXCEPT ![c] =
                         IF step.handle THEN Append(@, NewMessageFromKafka(res.msg)) ELSE @]
       /\ handlerInFlight' = [handlerInFlight EXCEPT ![c] = IF step.handle THEN @ + 1 ELSE @]
       /\ reader' = [reader EXCEPT ![c] =
                        IF step.exit THEN <<[@[1] EXCEPT !.closeCalls = @ + 1]>> ELSE @]
       /\ cpc' = [cpc EXCEPT ![c] =
                     IF step.exit THEN "returned"
                     ELSE IF step.wait THEN "handling" ELSE "reading"]
       /\ readsIssued' = [readsIssued EXCEPT ![c] =
                             IF step.exit \/ step.wait THEN @ ELSE @ + 1]
       /\ heap' = IF step.exit THEN Close(Use(heap, ref[c], c), ref[c], c)
                  ELSE Use(heap, ref[c], c)
    /\ UNCHANGED <<buildVars, ctxCancelled, sendVars, ref, appVars>>

\* a handler invocation returns; the loop, if it waited for it, issues the next read
HandlerReturns(c) ==
    /\ handlerInFlight[c] > 0
    /\ handlerInFlight' = [handlerInFlight EXCEPT ![c] = @ - 1]
    /\ IF cpc[c] = "handling"
       THEN /\ cpc' = [cpc EXCEPT ![c] = "reading"]
            /\ readsIssued' = [readsIssued EXCEPT ![c] = @ + 1]
       ELSE UNCHANGED <<cpc, readsIssued>>
    /\ UNCHANGED <<buildVars, reader, ctxCancelled, reads, handled, warnings, sendVars,
                   heapVars, appVars>>

\* the caller cancels the context it passed to Consume
CancelContext(c) ==
    /\ ~ctxCancelled[c]
    /\ ctxCancelled' = [ctxCancelled EXCEPT ![c] = TRUE]
    /\ UNCHANGED <<buildVars, cpc, reader, reads, readsIssued, handled, handlerInFlight,
                   warnings, sendVars, heapVars, appVars>>

----------------------------------------------------------------------------
(* Send *)

Senders == { "s1", "s2" }

MaxBatch == 3

RECURSIVE SeqsUpTo(_, _)
SeqsUpTo(S, n) ==
    IF n = 0 THEN { <<>> }
    ELSE LET shorter == SeqsUpTo(S, n - 1) IN
         shorter \cup { Append(q, x) : q \in { r \in shorter : Len(r) = n - 1 }, x \in S }

\* the argument lists of Send
Batches == SeqsUpTo(GenericMessages, MaxBatch)

\* the address of the writer NewWriter returns: a new object (line 151)
WriterRefPooled(h) ==
    IF \E i \in 1..Len(h) : h[i].kind = "writer"
    THEN CHOOSE i \in 1..Len(h) : h[i].kind = "writer"
    ELSE Len(h) + 1

WriterRef(h) == Len(h) + 1

\* the broker handle after b.NewWriter ran: no field of b is assigned (lines 150-157)
BrokerAfterNewWriterResetTransport(b) ==
    [b EXCEPT !.transport = [ClientID |-> b.transport.ClientID, TLS |-> <<>>, SASL |-> <<>>]]

BrokerAfterNewWriter(b) == b

\* NewWriter (lines 150-157)
NewWriter(b) == [ Transport |-> b.transport, closeCalls |-> 0 ]

\* the errors w.WriteMessages can return
TransportErrors == { ErrorsNew("dial tcp: connection refused"), ErrorsNew("[7] Request Timed Out") }

\* kMessages as WriteMessages receives it (lines 190-196), all topics being equal
kMessagesLastOnly(messages) ==
    [i \in 1..Len(messages) |-> KafkaMessage(messages[Len(messages)])]

kMessages(messages) ==
    [i \in 1..Len(messages) |-> KafkaMessage(messages[i])]

\* Send up to the WriteMessages call (lines 182-198):
\*   newWriter  a writer was created and its Close deferred
\*   write      WriteMessages is called, with kMessages
\*   err        the error Send returns when it returns before WriteMessages
SendPreparePartial(messages) ==
    IF Len(messages) = 0
    THEN [newWriter |-> FALSE, write |-> FALSE, kMessages |-> <<>>, err |-> NilErr]
    ELSE LET commonTopic == messages[1].Topic
             differ == { i \in 1..Len(messages) : messages[i].Topic # commonTopic }
         IN  IF differ # {}
             THEN [newWriter |-> TRUE, write |-> TRUE,
                   kMessages |-> kMessages(SubSeq(messages, 1,
                                    (CHOOSE i \in differ : \A j \in differ : i <= j) - 1)),
                   err |-> DifferentTopicErr]
             ELSE [newWriter |-> TRUE, write |-> TRUE, kMessages |-> kMessages(messages),
                   err |-> NilErr]

SendPrepareWriterFirst(messages) ==
    IF Len(messages) = 0
    THEN [newWriter |-> TRUE, write |-> FALSE, kMessages |-> <<>>, err |-> NilErr]
    ELSE LET commonTopic == messages[1].Topic IN
         IF \E i \in 1..Len(messages) : messages[i].Topic # commonTopic
         THEN [newWriter |-> TRUE, write |-> FALSE, kMessages |-> <<>>, err |-> DifferentTopicErr]
         ELSE [newWriter |-> TRUE, write |-> TRUE, kMessages |-> kMessages(messages),
               err |-> NilErr]

SendPrepareCheckFirst(messages) ==
    IF Len(messages) = 0
    THEN [newWriter |-> FALSE, write |-> FALSE, kMessages |-> <<>>, err |-> NilErr]
    ELSE LET commonTopic == messages[1].Topic IN
         IF \E i \in 1..Len(messages) : messages[i].Topic # commonTopic
         THEN [newWriter |-> FALSE, write |-> FALSE, kMessages |-> <<>>, err |-> DifferentTopicErr]
         ELSE [newWriter |-> TRUE, write |-> TRUE, kMessages |-> kMessages(messages),
               err |-> NilErr]

SendPrepare(messages) ==
    IF Len(messages) = 0
    THEN [newWriter |-> FALSE, write |-> FALSE, kMessages |-> <<>>, err |-> NilErr]
    ELSE LET commonTopic == messages[1].Topic IN
         IF \E i \in 1..Len(messages) : messages[i].Topic # commonTopic
         THEN [newWriter |-> TRUE, write |-> FALSE, kMessages |-> <<>>, err |-> DifferentTopicErr]
         ELSE [newWriter |-> TRUE, write |-> TRUE, kMessages |-> kMessages(messages),
               err |-> NilErr]

\* Send is called: it returns at once (empty batch, different topics: the
\* deferred w.Close() runs) or issues WriteMessages
Send(s, messages) ==
    /\ spc[s] = "idle"
    /\ broker # <<>>
    /\ LET p == SendPrepare(messages) IN
       /\ batch' = [batch EXCEPT ![s] = messages]
       /\ writeCalls' = [writeCalls EXCEPT ![s] = IF p.write THEN Append(@, p.kMessages) ELSE @]
       /\ writer' = [writer EXCEPT ![s] =
                        IF ~p.newWriter THEN @
                        ELSE IF p.write /\ p.err = NilErr THEN <<NewWriter(broker[1])>>
                        ELSE <<[NewWriter(broker[1]) EXCEPT !.closeCalls = 1]>>]
       /\ spc' = [spc EXCEPT ![s] = IF p.write /\ p.err = NilErr THEN "writing" ELSE "returned"]
       /\ sendErr' = [sendErr EXCEPT ![s] = p.err]
       /\ broker' = IF p.newWriter THEN <<BrokerAfterNewWriter(broker[1])>> ELSE broker
       /\ ref' = [ref EXCEPT ![s] = IF p.newWriter THEN WriterRef(heap) ELSE @]
       /\ heap' = IF ~p.newWriter THEN heap
                  ELSE LET w  == WriterRef(heap)
                           h1 == Alloc(heap, w, "writer", s)
                           h2 == IF p.write THEN Use(h1, w, s) ELSE h1
                       IN  IF p.write /\ p.err = NilErr THEN h2 ELSE Close(h2, w, s)
    /\ UNCHANGED <<config, initCalled, initErr, newErr, consumeVars, writeErrs, appVars>>

\* what Send returns once WriteMessages returned err (lines 198-203)
SendReturnUnwrapped(err) ==
    IF err # NilErr THEN ErrorsNew("cannot send kafka messages(s)") ELSE NilErr

SendReturn(err) ==
    IF err # NilErr THEN Errorf("cannot send kafka messages(s)", err) ELSE NilErr

\* WriteMessages returns err; Send wraps it, the deferred w.Close() runs and
\* Send returns (lines 198-203)
WriteMessagesReturns(s, err) ==
    /\ spc[s] = "writing"
    /\ writeErrs' = [writeErrs EXCEPT ![s] = Append(@, err)]
    /\ sendErr' = [sendErr EXCEPT ![s] = SendReturn(err)]
    /\ writer' = [writer EXCEPT ![s] = <<[@[1] EXCEPT !.closeCalls = @ + 1]>>]
    /\ heap' = Close(heap, ref[s], s)
    /\ spc' = [spc EXCEPT ![s] = "returned"]
    /\ UNCHANGED <<buildVars, consumeVars, batch, writeCalls, ref, appVars>>

----------------------------------------------------------------------------
(* Sources client: GetProvisioningTypeId, loadAppId *)

TypeIdCallers == { "g1", "g2", "g3" }

ProvisioningTypeName == "/insights/platform/provisioning"

ApplicationTypesFetchUnsuccessful == ErrorsNew("failed to fetch ApplicationTypes")
NotFoundError == ErrorsNew("application type 'provisioning' has not been found in types supported by sources")

\* parsing.IsHTTPStatus2xx
IsHTTPStatus2xx(status) == status >= 200 /\ status < 300

\* what c.client.ListApplicationTypes can return: a transport error, or a
\* response with a status and a body that decodes (or not) to a list of types
TypeResponse(status, decodes, types) ==
    [err |-> NilErr, status |-> status, decodes |-> decodes, types |-> types]

ListApplicationTypesResults ==
    LET prov(id) == [Name |-> ProvisioningTypeName, Id |-> id]
        other    == [Name |-> "/insights/platform/cost-management", Id |-> "2"]
    IN  { [err |-> ErrorsNew("connection reset by peer"), status |-> 0,
           decodes |-> FALSE, types |-> <<>>],
          TypeResponse(500, TRUE, <<prov("5")>>),
          TypeResponse(404, FALSE, <<>>),
          TypeResponse(200, FALSE, <<>>),
          TypeResponse(200, TRUE, <<>>),
          TypeResponse(200, TRUE, <<other>>),
          TypeResponse(200, TRUE, <<other, prov("5")>>),
          TypeResponse(201, TRUE, <<prov("7"), other, prov("5")>>) }

\* loadAppId (lines 115-138)
loadAppId(resp) ==
    IF resp.err # NilErr
    THEN [id |-> "", err |-> Errorf("failed to fetch ApplicationTypes", resp.err)]
    ELSE IF ~IsHTTPStatus2xx(resp.status)
    THEN [id |-> "", err |-> ErrorfArg(ApplicationTypesFetchUnsuccessful, resp.status)]
    ELSE IF ~resp.decodes
    THEN [id |-> "", err |-> Errorf("could not unmarshal the response", ErrorsNew("invalid character"))]
    ELSE LET found == { i \in 1..Len(resp.types) : resp.types[i].Name = ProvisioningTypeName } IN
         IF found # {}
         THEN [id |-> resp.types[CHOOSE i \in found : \A j \in found : i <= j].Id, err |-> NilErr]
         ELSE [id |-> "", err |-> NotFoundError]

\* cache.AppTypeId(), cache.SetAppTypeId(id)
CacheAppTypeId(cache) ==
    IF cache = <<>> THEN [id |-> "", ok |-> FALSE] ELSE [id |-> cache[1], ok |-> TRUE]

CacheSetAppTypeId(cache, id) == <<id>>

\* GetProvisioningTypeId once loadAppId returned r (lines 107-112): the cache
\* after it and what it returns
TypeIdAfterLoadCachesFirst(cache, r) ==
    IF r.err # NilErr
    THEN [cache |-> CacheSetAppTypeId(cache, r.id), id |-> "", err |-> r.err]
    ELSE [cache |-> CacheSetAppTypeId(cache, r.id), id |-> r.id, err |-> NilErr]

TypeIdAfterLoad(cache, r) ==
    IF r.err # NilErr
    THEN [cache |-> cache, id |-> "", err |-> r.err]
    ELSE [cache |-> CacheSetAppTypeId(cache, r.id), id |-> r.id, err |-> NilErr]

IdleCall ==
    [pc |-> "idle", id |-> "", err |-> NilErr, remoteRequests |-> 0,
     cacheAtCall |-> <<>>, cacheAtLoad |-> <<>>, cacheAfter |-> <<>>, load |-> <<>>]

\* GetProvisioningTypeId is called: a cached id is returned at once, otherwise
\* loadAppId sends its request (lines 103-107, 116-117)
GetProvisioningTypeId(g) ==
    /\ typeIdCalls[g].pc = "idle"
    /\ LET hit == CacheAppTypeId(appTypeIdCache) IN
       typeIdCalls' = [typeIdCalls EXCEPT ![g] =
           IF hit.ok
           THEN [@ EXCEPT !.pc = "returned", !.id = hit.id, !.cacheAtCall = appTypeIdCache,
                          !.cacheAfter = appTypeIdCache]
           ELSE [@ EXCEPT !.pc = "loading", !.remoteRequests = @ + 1,
                          !.cacheAtCall = appTypeIdCache]]
    /\ UNCHANGED <<buildVars, consumeVars, sendVars, heapVars, appTypeIdCache,
                   authentications, filtered, noopVars>>

\* the request of loadAppId is answered; GetProvisioningTypeId returns (lines 107-138)
LoadAppIdReturns(g, resp) ==
    /\ typeIdCalls[g].pc = "loading"
    /\ LET r   == loadAppId(resp)
           out == TypeIdAfterLoad(appTypeIdCache, r)
       IN  /\ appTypeIdCache' = out.cache
           /\ typeIdCalls' = [typeIdCalls EXCEPT ![g] =
                  [@ EXCEPT !.pc = "returned", !.id = out.id, !.err = out.err,
                            !.cacheAtLoad = appTypeIdCache, !.cacheAfter = out.cache,
                            !.load = <<r>>]]
    /\ UNCHANGED <<buildVars, consumeVars, sendVars, heapVars, authentications, filtered, noopVars>>

----------------------------------------------------------------------------
(* Sources client: filterSourceAuthentications *)

MaxAuths == 3

MoreThenOneAuthenticationForSourceErr == ErrorsNew("more then one authentication for source")

\* AuthenticationRead: ResourceType is a pointer (<<>> is nil)
AuthenticationReads ==
    { [Id |-> "a1", ResourceType |-> <<"Application">>],
      [Id |-> "a2", ResourceType |-> <<"Application">>],
      [Id |-> "s1", ResourceType |-> <<"Source">>],
      [Id |-> "n1", ResourceType |-> <<>>] }

ZeroAuthenticationRead == [Id |-> "", ResourceType |-> <<>>]

\* filterSourceAuthentications (lines 140-153). panics: the call ends in a
\* runtime panic (nil pointer dereference on line 144, index out of range on
\* line 152) instead of returning.
filterSourceAuthentications(auths) ==
    IF \E i \in 1..Len(auths) : auths[i].ResourceType = <<>>
    THEN [auth |-> ZeroAuthenticationRead, err |-> NilErr, panics |-> TRUE]
    ELSE LET IsApplication(a) == a.ResourceType[1] = "Application"
             list == SelectSeq(auths, IsApplication)
         IN  IF Len(list) > 1
             THEN [auth |-> ZeroAuthenticationRead,
                   err |-> MoreThenOneAuthenticationForSourceErr, panics |-> FALSE]
             ELSE IF Len(list) = 0
             THEN [auth |-> ZeroAuthenticationRead, err |-> NilErr, panics |-> TRUE]
             ELSE [auth |-> list[1], err |-> NilErr, panics |-> FALSE]

\* GetArn filters the authentications of the response (line 71)
FilterAuthentications ==
    /\ filtered = <<>>
    /\ filtered' = <<filterSourceAuthentications(authentications)>>
    /\ UNCHANGED <<buildVars, consumeVars, sendVars, heapVars, appTypeIdCache, typeIdCalls,
                   authentications, noopVars>>

----------------------------------------------------------------------------
(* CreateNoopReservation *)

MaxRequests == 3

AccountIds == { 11, 12 }

\* the calls CreateNoopReservation makes, in order, for a request of
\* accountId, when the DAO assigns newId or fails (daoOK), the enqueuer
\* accepts the job or fails (enqueueOK) and render.Render succeeds or fails
NoopJob(accountId, reservationId) ==
    [Type |-> "noop", AccountID |-> accountId, ReservationID |-> reservationId]

CreateCall(accountId, daoOK, newId) ==
    [op |-> "CreateNoop", ok |-> daoOK, id |-> IF daoOK THEN newId ELSE 0,
     job |-> NoopJob(accountId, 0), payload |-> "reservation"]

EnqueueCall(job, ok) ==
    [op |-> "Enqueue", ok |-> ok, id |-> job.ReservationID, job |-> job, payload |-> "job"]

RenderCall(ok, id) ==
    [op |-> "Render", ok |-> ok, id |-> id, job |-> NoopJob(0, 0), payload |-> "NoopReservationResponse"]

RenderErrorCall(payload) ==
    [op |-> "renderError", ok |-> TRUE, id |-> 0, job |-> NoopJob(0, 0), payload |-> payload]

CreateNoopReservationCallsJobFirst(accountId, daoOK, newId, enqueueOK, renderOK) ==
    LET create  == CreateCall(accountId, daoOK, newId)
        enqueue == EnqueueCall(NoopJob(accountId, 0), enqueueOK)
    IN  IF ~daoOK THEN <<create, RenderErrorCall("DAOError")>>
        ELSE IF ~enqueueOK THEN <<create, enqueue, RenderErrorCall("EnqueueTaskError")>>
        ELSE IF ~renderOK
        THEN <<create, enqueue, RenderCall(FALSE, create.id), RenderErrorCall("RenderError")>>
        ELSE <<create, enqueue, RenderCall(TRUE, create.id)>>

CreateNoopReservationCalls(accountId, daoOK, newId, enqueueOK, renderOK) ==
    LET create  == CreateCall(accountId, daoOK, newId)
        enqueue == EnqueueCall(NoopJob(accountId, create.id), enqueueOK)
    IN  IF ~daoOK THEN <<create, RenderErrorCall("DAOError")>>
        ELSE IF ~enqueueOK THEN <<create, enqueue, RenderErrorCall("EnqueueTaskError")>>
        ELSE IF ~renderOK
        THEN <<create, enqueue, RenderCall(FALSE, create.id), RenderErrorCall("RenderError")>>
        ELSE <<create, enqueue, RenderCall(TRUE, create.id)>>

\* one request is handled (lines 19-60)
CreateNoopReservation(accountId, daoOK, enqueueOK, renderOK) ==
    /\ Len(requests) < MaxRequests
    /\ LET newId == Len(reservations) + 1
           calls == CreateNoopReservationCalls(accountId, daoOK, newId, enqueueOK, renderOK)
       IN  /\ requests' = Append(requests, calls)
           /\ reservations' =
                 IF calls[1].ok
                 THEN Append(reservations, [ID |-> calls[1].id, AccountID |-> accountId,
                                            Provider |-> "noop", Status |-> "Created", Steps |-> 1])
                 ELSE reservations
           /\ jobQueue' =
                 IF Len(calls) >= 2 /\ calls[2].op = "Enqueue" /\ calls[2].ok
                 THEN Append(jobQueue, calls[2].job)
                 ELSE jobQueue
    /\ UNCHANGED <<buildVars, consumeVars, sendVars, heapVars, sourcesVars>>

----------------------------------------------------------------------------
(* Specifications *)

ConsumeIdle ==
    /\ cpc = [c \in Consumers |-> "idle"]
    /\ reader = [c \in Consumers |-> <<>>]
    /\ ctxCancelled = [c \in Consumers |-> FALSE]
    /\ reads = [c \in Consumers |-> <<>>]
    /\ readsIssued = [c \in Consumers |-> 0]
    /\ handled = [c \in Consumers |-> <<>>]
    /\ handlerInFlight = [c \in Consumers |-> 0]
    /\ warnings = [c \in Consumers |-> <<>>]

SendIdle ==
    /\ spc = [s \in Senders |-> "idle"]
    /\ batch = [s \in Senders |-> <<>>]
    /\ writer = [s \in Senders |-> <<>>]
    /\ writeCalls = [s \in Senders |-> <<>>]
    /\ sendErr = [s \in Senders |-> NilErr]
    /\ writeErrs = [s \in Senders |-> <<>>]
    /\ heap = <<>>
    /\ ref = [p \in Consumers \cup Senders |-> 0]

\* the process before InitializeKafkaBroker, under any configuration
NotInitialized ==
    /\ config \in Configs
    /\ broker = <<>>
    /\ initCalled = FALSE
    /\ initErr = NilErr
    /\ newErr = NilErr

\* the process after a successful InitializeKafkaBroker
Initialized ==
    /\ config \in { cfg \in Configs :
                      /\ cfg.CACert \in { <<>>, <<"etc", "kafka", "ca.pem">> }
                      /\ cfg.SaslMechanism \in { <<>>, Str_SCRAM256 }
                      /\ (cfg.CACert = <<>>) = (cfg.SaslMechanism = <<>>)
                      /\ cfg.Username = "user" /\ cfg.Password = "user" }
    /\ broker = NewKafkaBroker(config).broker
    /\ initCalled = TRUE
    /\ initErr = NilErr
    /\ newErr = NilErr

\* nothing has been asked of the sources client or of the reservation service
SourcesIdle ==
    /\ appTypeIdCache = <<>>
    /\ typeIdCalls = [g \in TypeIdCallers |-> IdleCall]

FilterIdle ==
    /\ authentications = <<>>
    /\ filtered = <<>>

NoopIdle ==
    /\ reservations = <<>>
    /\ jobQueue = <<>>
    /\ requests = <<>>

AppIdle == SourcesIdle /\ FilterIdle /\ NoopIdle

\* broker construction
InitBuild == NotInitialized /\ ConsumeIdle /\ SendIdle /\ AppIdle
NextBuild == InitializeKafkaBroker
SpecBuild == InitBuild /\ [][NextBuild]_vars

\* one Consume loop on a constructed broker
InitConsume == Initialized /\ ConsumeIdle /\ SendIdle /\ AppIdle
NextConsume ==
    \/ \E topic \in Topics : Consume("c1", topic)
    \/ ReadMessageReturns("c1")
    \/ HandlerReturns("c1")
    \/ CancelContext("c1")
SpecConsume == InitConsume /\ [][NextConsume]_vars

\* one Send call on a constructed broker
InitSend == Initialized /\ ConsumeIdle /\ SendIdle /\ AppIdle
NextSend ==
    \/ \E messages \in Batches : Send("s1", messages)
    \/ \E err \in TransportErrors \cup { NilErr } : WriteMessagesReturns("s1", err)
SpecSend == InitSend /\ [][NextSend]_vars

\* Consume loops and Send calls running concurrently on one broker; the
\* inputs are a few of each kind
MaxConcurrentReads == 1

ConcurrentReadErrors == { NilErr, io_EOF, RequestTimedOut }

ConcurrentBatches ==
    LET a == [Topic |-> "orders", Key |-> <<>>, Value |-> <<104, 105>>, Headers |-> <<>>]
        b == [Topic |-> "events", Key |-> <<>>, Value |-> <<>>, Headers |-> <<>>]
    IN  { <<>>, <<a>>, <<a, b>> }

InitConcurrent == Initialized /\ ConsumeIdle /\ SendIdle /\ AppIdle
NextConcurrent ==
    \/ \E c \in Consumers : Consume(c, "orders")
    \/ \E c \in Consumers :
          /\ Len(reads[c]) < MaxConcurrentReads
          /\ ReadMessageReturns(c)
          /\ reads'[c][Len(reads'[c])].err \in ConcurrentReadErrors
          /\ reads'[c][Len(reads'[c])].msg.Offset \in { 0, 42 }
    \/ \E c \in Consumers : HandlerReturns(c)
    \/ \E s \in Senders : \E messages \in ConcurrentBatches : Send(s, messages)
    \/ \E s \in Senders : \E err \in { NilErr, ErrorsNew("dial tcp: connection refused") } :
          WriteMessagesReturns(s, err)
SpecConcurrent == InitConcurrent /\ [][NextConcurrent]_vars

\* calls of GetProvisioningTypeId, concurrent, on one cache
InitSources == Initialized /\ ConsumeIdle /\ SendIdle /\ AppIdle
NextSources ==
    \/ \E g \in TypeIdCallers : GetProvisioningTypeId(g)
    \/ \E g \in TypeIdCallers : \E resp \in ListApplicationTypesResults : LoadAppIdReturns(g, resp)
SpecSources == InitSources /\ [][NextSources]_vars

\* filterSourceAuthentications on any list of authentications
InitFilter ==
    /\ Initialized /\ ConsumeIdle /\ SendIdle /\ SourcesIdle /\ NoopIdle
    /\ authentications \in SeqsUpTo(AuthenticationReads, MaxAuths)
    /\ filtered = <<>>
NextFilter == FilterAuthentications
SpecFilter == InitFilter /\ [][NextFilter]_vars

\* CreateNoopReservation requests, one after the other
InitNoop == Initialized /\ ConsumeIdle /\ SendIdle /\ AppIdle
NextNoop ==
    \E accountId \in AccountIds : \E daoOK \in BOOLEAN :
        \E enqueueOK \in BOOLEAN : \E renderOK \in BOOLEAN :
            CreateNoopReservation(accountId, daoOK, enqueueOK, renderOK)
SpecNoop == InitNoop /\ [][NextNoop]_vars

----------------------------------------------------------------------------
(* Properties of broker construction (SpecBuild) *)

\* case-insensitive equality of two names
EqualFold(a, b) ==
    /\ Len(a) = Len(b)
    /\ \A i \in 1..Len(a) : ToLowerChar(a[i]) = ToLowerChar(b[i])

Recognized(name) ==
    \/ EqualFold(name, Str_plain)
    \/ EqualFold(name, Str_scram256)
    \/ EqualFold(name, Str_scram512)

CAConfigured == config.CACert # <<>>
CAUnreadable == CAConfigured /\ Clean(config.CACert) \notin DOMAIN FileSystem
\* readable, but no certificate can be parsed out of the content
CAUnparseable ==
    /\ CAConfigured
    /\ Clean(config.CACert) \in DOMAIN FileSystem
    /\ \A i \in 1..Len(FileSystem[Clean(config.CACert)]) :
          LET blk == FileSystem[Clean(config.CACert)][i] IN
          blk.Type # "CERTIFICATE" \/ blk.cert = <<>>
SaslConfigured == config.SaslMechanism # <<>>
ScramFails ==
    /\ EqualFold(config.SaslMechanism, Str_scram256) \/ EqualFold(config.SaslMechanism, Str_scram512)
    /\ "bad\\u0007" \in { config.Username, config.Password }

ErrorNames(err, name) == \E i \in 1..Len(err.args) : err.args[i] = name

\* C3: with a CA path configured, construction fails with an error when the
\* file cannot be read and when its content cannot be parsed as a PEM
\* certificate bundle; no broker is returned then.
C3_CAFailureIsFatal ==
    (initCalled /\ (CAUnreadable \/ CAUnparseable))
        => (newErr # NilErr /\ initErr # NilErr /\ broker = <<>>)

\* C9 as stated: every configured unrecognized mechanism name makes
\* construction fail with an error wrapping UnknownSaslMechanismErr that
\* contains the name; every recognized name, in any case, makes it succeed.
C9_AsStated ==
    (initCalled /\ SaslConfigured)
        => IF Recognized(config.SaslMechanism)
           THEN newErr = NilErr /\ broker # <<>>
           ELSE /\ broker = <<>>
                /\ ErrorsIs(newErr, UnknownSaslMechanismErr)
                /\ ErrorNames(newErr, config.SaslMechanism)

\* C9 amended: when the CA certificate step does not fail, an unrecognized
\* configured name makes construction fail with an error that wraps
\* UnknownSaslMechanismErr and contains the name; a recognized name, in any
\* letter case, never does, and construction succeeds with that mechanism
\* unless SCRAM mechanism construction itself fails, which is the error then.
C9_MechanismNames ==
    (initCalled /\ SaslConfigured /\ ~CAUnreadable)
        => IF ~Recognized(config.SaslMechanism)
           THEN /\ broker = <<>>
                /\ ErrorsIs(newErr, UnknownSaslMechanismErr)
                /\ ErrorsIs(initErr, UnknownSaslMechanismErr)
                /\ ErrorNames(newErr, config.SaslMechanism)
           ELSE IF ScramFails
           THEN /\ broker = <<>>
                /\ newErr # NilErr
                /\ ~ErrorsIs(newErr, UnknownSaslMechanismErr)
           ELSE /\ newErr = NilErr /\ initErr = NilErr
                /\ broker # <<>>
                /\ broker[1].dialer.SASLMechanism # <<>>
                /\ broker[1].dialer.SASLMechanism[1].Username = config.Username

C9_Witness ==
    /\ initCalled
    /\ CAConfigured /\ ~CAUnreadable
    /\ config.SaslMechanism = Str_PLAINS
    /\ ErrorsIs(initErr, UnknownSaslMechanismErr)
    /\ broker = <<>>

\* C10: construction is all-or-nothing: every configuration error (unreadable
\* or invalid CA file, unknown SASL mechanism, SCRAM construction failure)
\* yields a nil broker with a non-nil error from NewKafkaBroker and from
\* InitializeKafkaBroker; a non-nil broker comes only with a nil error.
C10_AllOrNothing ==
    initCalled =>
        /\ (CAUnreadable \/ CAUnparseable
              \/ (SaslConfigured /\ ~Recognized(config.SaslMechanism)) \/ ScramFails)
                => (broker = <<>> /\ newErr # NilErr /\ initErr # NilErr)
        /\ broker # <<>> => (newErr = NilErr /\ initErr = NilErr)
        /\ (broker = <<>>) = (newErr # NilErr)

----------------------------------------------------------------------------
(* Properties of Consume (SpecConsume) *)

\* an end-of-stream error: io.EOF itself or an error wrapping it
EndOfStream(err) == err \in { io_EOF, WrappedEOF }

\* number of the first k results of rs that carry a message
Delivered(rs, k) == Cardinality({ j \in 1..k : rs[j].err = NilErr })

\* number of the first k results of rs that carry an error other than end-of-stream
Transient(rs, k) == Cardinality({ j \in 1..k : rs[j].err # NilErr /\ ~EndOfStream(rs[j].err) })

Closed(c) == IF reader[c] = <<>> THEN 0 ELSE reader[c][1].closeCalls

\* C1: a read that returns the cancellation error of the context ends the
\* loop like end-of-stream does: it is the last read, Consume has returned,
\* the reader was closed exactly once and the handler is not invoked again.
C1_CancellationExits ==
    \A c \in Consumers : \A i \in 1..Len(reads[c]) :
        reads[c][i].err = ContextCanceled
            => /\ i = Len(reads[c])
               /\ readsIssued[c] = i
               /\ cpc[c] = "returned"
               /\ Closed(c) = 1
               /\ Len(handled[c]) = Delivered(reads[c], i)

\* C4: a read that returns an end-of-stream error (io.EOF, also wrapped) is
\* the last read issued, the handler is not invoked after it, the reader is
\* closed exactly once and Consume has returned; the reader is closed by
\* nothing else.
C4_EndOfStreamExits ==
    \A c \in Consumers :
        /\ \A i \in 1..Len(reads[c]) :
              EndOfStream(reads[c][i].err)
                  => /\ i = Len(reads[c])
                     /\ readsIssued[c] = i
                     /\ cpc[c] = "returned"
                     /\ Closed(c) = 1
                     /\ Len(handled[c]) = Delivered(reads[c], i - 1)
        /\ Closed(c) = (IF cpc[c] = "returned" THEN 1 ELSE 0)

C4_Witness ==
    /\ Len(reads["c1"]) = 2
    /\ reads["c1"][1].err = NilErr
    /\ reads["c1"][2].err = WrappedEOF
    /\ handlerInFlight["c1"] = 0
    /\ cpc["c1"] = "returned"
    /\ Closed("c1") = 1

\* C5: a read error that is not end-of-stream is logged as a warning, does
\* not invoke the handler and does not end the loop: the next read is
\* issued, and when that read succeeds its message is passed to the handler.
C5_TransientErrorContinues ==
    \A c \in Consumers : \A i \in 1..Len(reads[c]) :
        (reads[c][i].err # NilErr /\ ~EndOfStream(reads[c][i].err))
            => /\ Len(warnings[c]) >= Transient(reads[c], i)
               /\ warnings[c][Transient(reads[c], i)] = reads[c][i].err
               /\ Len(handled[c]) = Delivered(reads[c], Len(reads[c]))
               /\ readsIssued[c] >= i + 1
               /\ i = Len(reads[c]) => (cpc[c] = "reading" /\ Closed(c) = 0)
               /\ (i < Len(reads[c]) /\ reads[c][i + 1].err = NilErr)
                     => handled[c][Delivered(reads[c], i + 1)]
                          = NewMessageFromKafka(reads[c][i + 1].msg)

C5_Witness ==
    /\ Len(reads["c1"]) = 2
    /\ reads["c1"][1].err = RequestTimedOut
    /\ reads["c1"][2].err = NilErr
    /\ warnings["c1"] = <<RequestTimedOut>>
    /\ handled["c1"] = <<NewMessageFromKafka(reads["c1"][2].msg)>>

\* C6: the handler is invoked once per successfully read message, in the
\* order the messages were read; at most one invocation is in flight, and no
\* read is in flight while one is.
C6_OneHandlerAtATimeInOrder ==
    \A c \in Consumers :
        /\ Len(handled[c]) = Delivered(reads[c], Len(reads[c]))
        /\ \A i \in 1..Len(reads[c]) :
              reads[c][i].err = NilErr
                  => handled[c][Delivered(reads[c], i)] = NewMessageFromKafka(reads[c][i].msg)
        /\ handlerInFlight[c] \in { 0, 1 }
        /\ readsIssued[c] - Len(reads[c]) \in { 0, 1 }
        /\ handlerInFlight[c] = 1 => readsIssued[c] = Len(reads[c])

C6_Witness ==
    /\ Len(reads["c1"]) = 3
    /\ reads["c1"][1].err = NilErr
    /\ reads["c1"][2].err = ErrUnexpectedEOF
    /\ reads["c1"][3].err = NilErr
    /\ reads["c1"][1].msg # reads["c1"][3].msg
    /\ Len(handled["c1"]) = 2
    /\ handlerInFlight["c1"] = 1
    /\ readsIssued["c1"] = 3

----------------------------------------------------------------------------
(* Properties of Send (SpecSend) *)

MixedTopics(messages) ==
    \E i \in 1..Len(messages) : messages[i].Topic # messages[1].Topic

WriterCloses(s) == IF writer[s] = <<>> THEN 0 ELSE writer[s][1].closeCalls

\* C2: a Send of a non-empty batch in which some message's topic differs
\* from the first message's topic returns DifferentTopicErr and never calls
\* WriteMessages: no message of the batch is published.
C2_MixedTopicsNothingSent ==
    \A s \in Senders :
        (spc[s] # "idle" /\ batch[s] # <<>> /\ MixedTopics(batch[s]))
            => /\ spc[s] = "returned"
               /\ sendErr[s] = DifferentTopicErr
               /\ writeCalls[s] = <<>>

C2_Witness ==
    /\ spc["s1"] = "returned"
    /\ Len(batch["s1"]) = 3
    /\ batch["s1"][2].Topic = batch["s1"][1].Topic
    /\ batch["s1"][3].Topic # batch["s1"][1].Topic
    /\ sendErr["s1"] = DifferentTopicErr

\* C7: a Send of a non-empty batch of one topic makes exactly one
\* WriteMessages call, with as many wire messages as the batch has messages,
\* in the order of the batch, the i-th being the translation of the i-th.
C7_OneWriteInOrder ==
    \A s \in Senders :
        (spc[s] # "idle" /\ batch[s] # <<>> /\ ~MixedTopics(batch[s]))
            => /\ Len(writeCalls[s]) = 1
               /\ Len(writeCalls[s][1]) = Len(batch[s])
               /\ \A i \in 1..Len(batch[s]) :
                     /\ writeCalls[s][1][i] = KafkaMessage(batch[s][i])
                     /\ writeCalls[s][1][i].Topic = batch[s][i].Topic
                     /\ writeCalls[s][1][i].Key = batch[s][i].Key
                     /\ writeCalls[s][1][i].Value = batch[s][i].Value
                     /\ writeCalls[s][1][i].Headers = batch[s][i].Headers

C7_Witness ==
    /\ spc["s1"] = "returned"
    /\ sendErr["s1"] = NilErr
    /\ Len(batch["s1"]) = 3
    /\ batch["s1"][1] # batch["s1"][2]
    /\ batch["s1"][2] # batch["s1"][3]
    /\ Len(writeCalls["s1"]) = 1

\* C8: a Send of no message returns nil without contacting the transport: no
\* writer is created, WriteMessages is not called and nothing is closed.
C8_EmptySendIsNoop ==
    \A s \in Senders :
        (spc[s] # "idle" /\ batch[s] = <<>>)
            => /\ spc[s] = "returned"
               /\ sendErr[s] = NilErr
               /\ writer[s] = <<>>
               /\ writeCalls[s] = <<>>
               /\ WriterCloses(s) = 0

C8_Witness ==
    /\ spc["s1"] = "returned"
    /\ batch["s1"] = <<>>
    /\ sendErr["s1"] = NilErr


\* C11: when the publish call of a Send fails, Send returns a non-nil error
\* that wraps the transport error; no Send makes more than one WriteMessages
\* call, whatever the call returned.
C11_SendFailureWrappedNoRetry ==
    \A s \in Senders :
        /\ Len(writeCalls[s]) <= 1
        /\ Len(writeErrs[s]) <= Len(writeCalls[s])
        /\ (spc[s] = "returned" /\ writeErrs[s] # <<>> /\ writeErrs[s][1] # NilErr)
              => /\ sendErr[s] # NilErr
                 /\ sendErr[s] # writeErrs[s][1]
                 /\ ErrorsIs(sendErr[s], writeErrs[s][1])
                 /\ Len(writeCalls[s]) = 1

C11_Witness ==
    /\ spc["s1"] = "returned"
    /\ Len(batch["s1"]) = 2
    /\ writeErrs["s1"] = <<ErrorsNew("dial tcp: connection refused")>>
    /\ sendErr["s1"] # NilErr

\* C17: a Send of a non-empty batch creates exactly one writer, also when the
\* topics differ, and closes it exactly once before it returns; the close
\* comes after the WriteMessages call, of which there is at most one.
WritersCreatedBy(s) ==
    Cardinality({ i \in 1..Len(heap) : heap[i].kind = "writer" /\ heap[i].creator = s })

C17_OneWriterClosedAfterWrite ==
    \A s \in Senders :
        (spc[s] # "idle" /\ batch[s] # <<>>)
            => /\ writer[s] # <<>>
               /\ ref[s] # 0
               /\ WritersCreatedBy(s) = 1
               /\ Len(writeCalls[s]) <= 1
               /\ spc[s] = "writing"
                     => /\ WriterCloses(s) = 0
                        /\ heap[ref[s]].closeCalls = 0
                        /\ Len(writeCalls[s]) = 1
                        /\ writeErrs[s] = <<>>
               /\ spc[s] = "returned"
                     => /\ WriterCloses(s) = 1
                        /\ heap[ref[s]].closeCalls = 1
                        /\ Len(writeErrs[s]) = Len(writeCalls[s])

C17_Witness ==
    /\ spc["s1"] = "returned"
    /\ sendErr["s1"] = DifferentTopicErr
    /\ writer["s1"] # <<>>
    /\ WriterCloses("s1") = 1
    /\ writeCalls["s1"] = <<>>

----------------------------------------------------------------------------
(* Further properties of broker construction (SpecBuild) *)

\* C15: in a constructed broker the dialer and the transport hold the same
\* TLS configuration, the same SASL mechanism and the same client id; TLS is
\* absent exactly when no CA path is configured, SASL exactly when no
\* mechanism name is configured.
C15_DescriptorsAgree ==
    (initCalled /\ broker # <<>>)
        => /\ broker[1].dialer.TLS = broker[1].transport.TLS
           /\ broker[1].dialer.SASLMechanism = broker[1].transport.SASL
           /\ broker[1].dialer.ClientID = broker[1].transport.ClientID
           /\ (broker[1].dialer.TLS = <<>>) = ~CAConfigured
           /\ (broker[1].dialer.SASLMechanism = <<>>) = ~SaslConfigured

C15_Witness ==
    /\ initCalled
    /\ broker # <<>>
    /\ CAConfigured
    /\ config.SaslMechanism = Str_Scram512
    /\ broker[1].transport.SASL # <<>>
    /\ broker[1].transport.TLS # <<>>

----------------------------------------------------------------------------
(* Further properties of Consume (SpecConsume) *)

----------------------------------------------------------------------------
(* Properties of concurrent use of one broker (SpecConcurrent) *)

Returned(p) == IF p \in Consumers THEN cpc[p] = "returned" ELSE spc[p] = "returned"

\* C12: in every interleaving of Consume and Send calls, a reader or writer
\* is used only by the call that created it, no two calls hold the same one,
\* it is closed at most once, and exactly once when its call has returned.
C12_ReadersWritersOwnedClosedOnce ==
    /\ \A i \in 1..Len(heap) :
          /\ heap[i].users \subseteq { heap[i].creator }
          /\ ref[heap[i].creator] = i
          /\ heap[i].closeCalls <= 1
          /\ Returned(heap[i].creator) => heap[i].closeCalls = 1
    /\ \A p \in Consumers \cup Senders : \A q \in Consumers \cup Senders :
          (p # q /\ ref[p] # 0) => ref[p] # ref[q]
    /\ \A p \in Consumers \cup Senders :
          ref[p] # 0 => (ref[p] \in 1..Len(heap) /\ heap[ref[p]].creator = p)

C12_Witness ==
    /\ Len(heap) = 4
    /\ spc["s1"] = "returned" /\ writeErrs["s1"] # <<>> /\ writeErrs["s1"][1] # NilErr
    /\ spc["s2"] = "returned" /\ sendErr["s2"] = DifferentTopicErr
    /\ cpc["c1"] = "returned"
    /\ cpc["c2"] = "reading"
    /\ \A i \in 1..3 : heap[i].closeCalls = 1

\* C13: the broker handle is not mutated after construction: in every
\* interleaving of Consume loops and Send calls it is the broker that
\* NewKafkaBroker built, and every reader and writer carries its dialer or
\* transport.
C13_BrokerImmutable ==
    /\ broker = NewKafkaBroker(config).broker
    /\ \A c \in Consumers : reader[c] # <<>> => reader[c][1].Dialer = broker[1].dialer
    /\ \A s \in Senders : writer[s] # <<>> => writer[s][1].Transport = broker[1].transport

C13_Witness ==
    /\ cpc["c1"] = "reading"
    /\ cpc["c2"] = "handling"
    /\ spc["s1"] = "writing"
    /\ spc["s2"] = "returned"
    /\ writer["s2"] # <<>>
    /\ config.SaslMechanism # <<>>


----------------------------------------------------------------------------
(* Properties of the sources client (SpecSources, SpecFilter) *)

\* C18: GetProvisioningTypeId writes the cache only after a successful load:
\* a failed load returns an error and leaves the cache as it was; a call
\* made while the cache holds an id returns that id without a remote
\* request; a cache once filled stays filled.
C18_CacheWrittenOnSuccessOnly ==
    /\ \A g \in TypeIdCallers :
          LET call == typeIdCalls[g] IN
          call.pc = "returned"
              => IF call.cacheAtCall # <<>>
                 THEN /\ call.remoteRequests = 0
                      /\ call.err = NilErr
                      /\ call.id = call.cacheAtCall[1]
                      /\ call.cacheAfter = call.cacheAtCall
                 ELSE /\ call.remoteRequests = 1
                      /\ call.load # <<>>
                      /\ IF call.load[1].err # NilErr
                         THEN /\ call.err # NilErr
                              /\ call.id = ""
                              /\ call.cacheAfter = call.cacheAtLoad
                         ELSE /\ call.err = NilErr
                              /\ call.id = call.load[1].id
                              /\ call.cacheAfter = <<call.id>>
    /\ appTypeIdCache # <<>>
          => \E g \in TypeIdCallers :
                /\ typeIdCalls[g].pc = "returned"
                /\ typeIdCalls[g].load # <<>>
                /\ typeIdCalls[g].load[1].err = NilErr
                /\ typeIdCalls[g].load[1].id = appTypeIdCache[1]
    /\ (\E g \in TypeIdCallers : typeIdCalls[g].cacheAfter # <<>>) => appTypeIdCache # <<>>

C18_Witness ==
    /\ typeIdCalls["g1"].pc = "returned" /\ typeIdCalls["g1"].id = "5"
    /\ typeIdCalls["g1"].remoteRequests = 1
    /\ typeIdCalls["g2"].pc = "returned" /\ typeIdCalls["g2"].err # NilErr
    /\ typeIdCalls["g2"].cacheAtLoad = <<"5">> /\ typeIdCalls["g2"].cacheAfter = <<"5">>
    /\ typeIdCalls["g3"].pc = "returned" /\ typeIdCalls["g3"].id = "5"
    /\ typeIdCalls["g3"].remoteRequests = 0

\* C19: for every list of authentications, also one without an entry of
\* resource type Application, filterSourceAuthentications returns the single
\* Application authentication or an error; it fails in no other way.
ApplicationEntries(auths) ==
    { i \in 1..Len(auths) : auths[i].ResourceType = <<"Application">> }

C19_FilterReturnsOrErrs ==
    filtered # <<>>
        => /\ ~filtered[1].panics
           /\ \/ filtered[1].err # NilErr
              \/ /\ Cardinality(ApplicationEntries(authentications)) = 1
                 /\ \E i \in ApplicationEntries(authentications) :
                       filtered[1].auth = authentications[i]
           /\ Cardinality(ApplicationEntries(authentications)) > 1
                 => filtered[1].err = MoreThenOneAuthenticationForSourceErr

----------------------------------------------------------------------------
(* Properties of CreateNoopReservation (SpecNoop) *)

\* C20: a job is enqueued only after the reservation was created in the
\* database and carries that reservation's ID; when the create fails no job
\* is enqueued and an error is rendered; a success response is rendered only
\* after the create and the enqueue both succeeded.
C20_CreateThenEnqueueThenRender ==
    /\ \A r \in 1..Len(requests) :
          LET calls == requests[r] IN
          /\ calls[1].op = "CreateNoop"
          /\ \A k \in 1..Len(calls) :
                calls[k].op = "Enqueue"
                    => \E j \in 1..(k - 1) :
                          /\ calls[j].op = "CreateNoop" /\ calls[j].ok
                          /\ calls[j].id # 0
                          /\ calls[k].job.ReservationID = calls[j].id
                          /\ \E i \in 1..Len(reservations) : reservations[i].ID = calls[j].id
          /\ ~calls[1].ok
                => /\ \A k \in 1..Len(calls) : calls[k].op \notin { "Enqueue", "Render" }
                   /\ \E k \in 1..Len(calls) : calls[k].op = "renderError"
          /\ \A k \in 1..Len(calls) :
                calls[k].op = "Render"
                    => /\ \E j \in 1..(k - 1) : calls[j].op = "CreateNoop" /\ calls[j].ok
                       /\ \E j \in 1..(k - 1) : calls[j].op = "Enqueue" /\ calls[j].ok
    /\ \A q \in 1..Len(jobQueue) :
          \E i \in 1..Len(reservations) :
             /\ reservations[i].ID = jobQueue[q].ReservationID
             /\ reservations[i].AccountID = jobQueue[q].AccountID

C20_Witness ==
    /\ Len(requests) = 3
    /\ ~requests[1][1].ok
    /\ Len(requests[2]) = 3 /\ requests[2][3].op = "Render" /\ requests[2][3].ok
    /\ requests[3][2].op = "Enqueue" /\ ~requests[3][2].ok
    /\ Len(reservations) = 2
    /\ jobQueue = <<NoopJob(requests[2][1].job.AccountID, 1)>>

====
